---- MODULE Spec2Model ----
(***************************************************************************)
(* Model of the ollama-go client's request dispatcher (Client.sendRequest, *)
(* client.go), its rate limiter (ratelimit.go) and the streaming decode    *)
(* tasks of the operation facade (GenerateStream, ChatStream, PullModel,   *)
(* PushModel).                                                             *)
(*                                                                         *)
(* The options hold durations in whole seconds; computed durations are     *)
(* int64 counts of nanoseconds.                                            *)
(***************************************************************************)
EXTENDS Integers, Sequences, FiniteSets, TLC

VARIABLES
    opts,       \* ClientOptions of the Client: MaxRetries, RetryWaitTime, RetryMaxWaitTime, RateLimit
    input,      \* the call's arguments: can body be JSON-encoded, can the request be built
    tokens,     \* tokens left in the shared rate.Limiter bucket
    ctx,        \* the caller's context: "live" or "done" (cancelled / deadline passed)
    cancelAt,   \* where sendRequest stood when ctx became done: [pc, attempt] (pc "none" while live)
    pc,         \* position of the sendRequest call
    attempt,    \* loop variable of the retry loop
    resp,       \* local resp: 0 is nil, otherwise an index into log
    err,        \* local err
    log,        \* one entry per loop iteration that built or sent a request
    sleeps,     \* the backoff durations slept so far, in order
    ret         \* what sendRequest returned: [resp, err]

sendVars == <<opts, input, tokens, ctx, cancelAt, pc, attempt, resp, err, log, sleeps, ret>>

VARIABLES
    sop,        \* the streaming operation that started the decode task
    sbody,      \* the 200 response body: a sequence of JSON texts, then end of input
    spos,       \* how many texts the json.Decoder has consumed
    spc,        \* position of the decode goroutine
    pending,    \* the item the goroutine is blocked sending on ch (Nil if none)
    received,   \* the items the consumer has received from ch, in order
    chClosed,   \* close(ch) has run
    bodyCloses, \* how many times resp.Body.Close() has run
    closeOrder, \* the order in which the two deferred calls ran
    consumer    \* the caller ranging over ch: "reading", "finished" or "abandoned"

streamVars == <<sop, sbody, spos, spc, pending, received, chClosed, bodyCloses, closeOrder, consumer>>

VARIABLES
    fop,        \* the facade operation that calls sendRequest ("none": a bare sendRequest call)
    fpc,        \* position of the facade operation
    req,        \* the request object the caller passed: [hasStream, Stream, name]
    sent,       \* the request handed to httpClient.Do at each attempt
    fret,       \* what the facade operation returned
    server      \* the server: "any" answers anything, "TestDeleteModel" is that test's handler

facadeVars == <<fop, fpc, req, sent, fret, server>>

VARIABLES
    dflow,      \* what is done with the Duration codec: "roundtrip" (encode, then decode) or "decode"
    dpc,        \* position in that flow
    dur,        \* the Duration handed to MarshalJSON
    text,       \* the JSON bytes MarshalJSON produced or UnmarshalJSON is given
    dst,        \* the Duration *d that UnmarshalJSON writes to
    derr,       \* the error UnmarshalJSON returned
    creq,       \* the ChatRequest handed to json.Marshal
    cjson       \* the JSON object json.Marshal produced: its keys and values, in order

codecVars == <<dflow, dpc, dur, text, dst, derr, creq, cjson>>

VARIABLES
    lstate,     \* the construction of the Client: "new", "ready" or "panic" ("none": no limiter observed)
    lrps,       \* the rps the limiter was built with
    lnow,       \* time since the limiter was built, in nanoseconds
    lcredit,    \* the bucket's content, in nanoseconds of accrual (negative: reserved ahead)
    sleeping,   \* the wake-up times of the callers asleep in Wait
    admitted    \* the times at which Wait returned, in order

limiterVars == <<lstate, lrps, lnow, lcredit, sleeping, admitted>>

VARIABLES
    shared,     \* the Stream field of a GenerateRequest that two calls were handed
    cpc,        \* the position of each of the two calls
    cattempt,   \* the loop variable of each call's retry loop
    csent       \* the stream flags of the bodies each call handed to the HTTP client, in order

sharedVars == <<shared, cpc, cattempt, csent>>

auxVars == <<codecVars, limiterVars, sharedVars>>

vars == <<sendVars, streamVars, facadeVars, auxVars>>

----------------------------------------------------------------------------
(* Bounds of the model *)

MaxRetriesBound == 2
MaxBodyLen == 3
NumValues == 2

----------------------------------------------------------------------------
(* Program constants *)

DefaultRetryMaxWaitTime == 30
StatusOK == 200
StatusTooManyRequests == 429

Statuses == {StatusOK, 404, StatusTooManyRequests, 500, 503}
Messages == {"invalid model"}
Garbage == [decodes |-> FALSE, error |-> ""]
ErrBody(m) == [decodes |-> TRUE, error |-> m]
Bodies == {Garbage} \cup {ErrBody(m) : m \in Messages}

Nil == [kind |-> "nil", status |-> 0, msg |-> "", cause |-> "nil"]
NoRet == [resp |-> 0, err |-> Nil]

(* The errors sendRequest and its callees build.  Each record holds what the *)
(* formatted error carries.                                                  *)
TransportError(why) == [kind |-> "transport", status |-> 0, msg |-> why, cause |-> "nil"]
BuildError == [kind |-> "new request", status |-> 0, msg |-> "", cause |-> "nil"]
EncodeError == [kind |-> "failed to encode request body", status |-> 0, msg |-> "", cause |-> "encode"]
AllRetriesFailed(e) == [kind |-> "all retries failed", status |-> 0, msg |-> e.msg, cause |-> e.kind]
HTTPStatusError(code) == [kind |-> "http status", status |-> code, msg |-> "", cause |-> "nil"]
APIErrorf(m) == [kind |-> "api error", status |-> 0, msg |-> m, cause |-> "nil"]

(***************************************************************************)
(* A time.Duration is an int64 count of nanoseconds.  A count is written   *)
(* here as days, second of the day and nanosecond of the second, so that   *)
(* the whole int64 range fits the checker's integers; neg is the sign of   *)
(* the count.                                                              *)
(***************************************************************************)
Second == 1000000000
SecsPerMin == 60
SecsPerHour == 3600
SecsPerDay == 86400
MantissaBits == 53

(* a count of nanoseconds in normal form *)
N3(day, sod, nsec) ==
    LET s == sod + nsec \div Second
    IN  [day |-> day + s \div SecsPerDay, sod |-> s % SecsPerDay, nsec |-> nsec % Second]

Less3(a, b) ==
    \/ a.day < b.day
    \/ a.day = b.day /\ a.sod < b.sod
    \/ a.day = b.day /\ a.sod = b.sod /\ a.nsec < b.nsec

Add3(a, b) == N3(a.day + b.day, a.sod + b.sod, a.nsec + b.nsec)

(* a - b for a >= b *)
Sub3(a, b) ==
    LET ns == a.nsec - b.nsec
        bn == IF ns < 0 THEN 1 ELSE 0
        sd == a.sod - b.sod - bn
        bs == IF sd < 0 THEN 1 ELSE 0
    IN  [day |-> a.day - b.day - bs, sod |-> sd + bs * SecsPerDay, nsec |-> ns + bn * Second]

(* 2^63 and 2^64 nanoseconds *)
TwoTo63 == [day |-> 106751, sod |-> 85636, nsec |-> 854775808]
TwoTo64 == Add3(TwoTo63, TwoTo63)

(* int64 arithmetic keeps the low 64 bits *)
RECURSIVE Mod64(_)
Mod64(x) == IF Less3(x, TwoTo64) THEN x ELSE Mod64(Sub3(x, TwoTo64))

(* the int64 that a 64-bit pattern stands for *)
Int64(x) ==
    IF Less3(x, TwoTo63)
    THEN [neg |-> FALSE, day |-> x.day, sod |-> x.sod, nsec |-> x.nsec]
    ELSE LET m == Sub3(TwoTo64, x)
         IN  [neg |-> TRUE, day |-> m.day, sod |-> m.sod, nsec |-> m.nsec]

Duration(day, sod, nsec) == [neg |-> FALSE, day |-> day, sod |-> sod, nsec |-> nsec]

----------------------------------------------------------------------------
(* Client.sendRequest and the rate limiter *)

MaxRetriesValues == -1 .. MaxRetriesBound
RetryWaitTimes == {1, 20}
RateLimits == {1}

(* defaultOptions, then the With... options the caller applied *)
Options ==
    [MaxRetries : MaxRetriesValues,
     RetryWaitTime : RetryWaitTimes,
     RetryMaxWaitTime : {DefaultRetryMaxWaitTime},
     RateLimit : RateLimits]

Inputs == [encodable : BOOLEAN, buildable : BOOLEAN]

BuildEntry == [kind |-> "build", status |-> 0, body |-> Garbage, closes |-> 0]
TransportEntry == [kind |-> "transport", status |-> 0, body |-> Garbage, closes |-> 0]
ResponseEntry(code, b) == [kind |-> "response", status |-> code, body |-> b, closes |-> 0]

(* newRateLimiter: the bucket starts full, burst = rps *)
newRateLimiter(rps) == rps

(* a loop whose passes each go through the limiter again *)
Continue_ThroughLimiter == "wait"

(* continue: on to attempt++ and the loop test; c.limiter.Wait() at line 48 *)
(* stands before the loop and is not run again                             *)
Continue == "loop"

(* a loop test that stops one attempt short *)
LoopCond_OffByOne(a) == a < opts.MaxRetries

(* for attempt := 0; attempt <= c.opts.MaxRetries; attempt++ *)
LoopCond(a) == a <= opts.MaxRetries

(* a backoff test that also skips the sleep before the first retry *)
NeedsBackoff_SkipFirst(a) == a > 1

(* if attempt > 0 *)
NeedsBackoff(a) == a > 0

(* the options hold their durations in whole seconds *)
Seconds(n) == N3(0, n, 0)

(* x * time.Duration(1 << uint(n)) in int64: the shift gives 2^n up to
   n = 62, the lowest int64 at n = 63 and 0 from n = 64 on, and the
   product keeps its low 64 bits, which is x doubled n times *)
RECURSIVE Shl(_, _)
Shl(x, n) ==
    IF n >= 64 \/ x = N3(0, 0, 0) THEN N3(0, 0, 0)
    ELSE IF n = 0 THEN x
    ELSE Shl(Mod64(Add3(x, x)), n - 1)

(* if waitTime > c.opts.RetryMaxWaitTime { waitTime = c.opts.RetryMaxWaitTime } *)
Capped(waitTime, max) ==
    IF ~waitTime.neg /\ Less3(max, waitTime) THEN Duration(max.day, max.sod, max.nsec) ELSE waitTime

(* waitTime := RetryWaitTime * (1 << (attempt-1)), capped at RetryMaxWaitTime *)
WaitTime(a) ==
    Capped(Int64(Shl(Seconds(opts.RetryWaitTime), a - 1)), Seconds(opts.RetryMaxWaitTime))

(* a retry test that takes every 4xx and 5xx status as retryable *)
IsRetryable_From400(code) == code >= 400 /\ code < 600

(* resp.StatusCode == 429 || (resp.StatusCode >= 500 && resp.StatusCode < 600) *)
IsRetryable(code) ==
    code = StatusTooManyRequests \/ (code >= 500 /\ code < 600)

(* resp.Body.Close() *)
CloseBody(e) == [e EXCEPT !.closes = @ + 1]

(* a retry branch that continues without closing the body *)
Received_NoClose(code, b) == ResponseEntry(code, b)

(* what the retry loop does with the response Do returned at lines 88-94 *)
Received(code, b) ==
    IF IsRetryable(code) THEN CloseBody(ResponseEntry(code, b)) ELSE ResponseEntry(code, b)

(* json.NewDecoder(resp.Body).Decode(&errResp): reading a closed body fails *)
DecodeErrResp(e) ==
    IF e.closes > 0 \/ ~e.body.decodes
    THEN [ok |-> FALSE, Error |-> ""]
    ELSE [ok |-> TRUE, Error |-> e.body.error]

(* lines 101-110: the error built from a final response whose status is not 200 *)
StatusFailure(e) ==
    LET errResp == DecodeErrResp(e)
    IN  IF ~errResp.ok THEN HTTPStatusError(e.status) ELSE APIErrorf(errResp.Error)

InitSend ==
    /\ opts \in Options
    /\ input \in Inputs
    /\ tokens \in 0 .. newRateLimiter(opts.RateLimit)
    /\ ctx = "live"
    /\ cancelAt = [pc |-> "none", attempt |-> 0]
    /\ pc = "wait"
    /\ attempt = 0
    /\ resp = 0
    /\ err = Nil
    /\ log = << >>
    /\ sleeps = << >>
    /\ ret = NoRet

(* c.limiter.Wait(): rate.Limiter.Wait(context.Background()) takes a token, *)
(* or blocks until one is there; the caller's ctx is not passed to it.       *)
Wait ==
    /\ pc = "wait"
    /\ IF tokens > 0
       THEN /\ tokens' = tokens - 1
            /\ pc' = "loop"
       ELSE /\ pc' = "blocked"
            /\ UNCHANGED tokens
    /\ UNCHANGED <<opts, input, ctx, cancelAt, attempt, resp, err, log, sleeps, ret>>
    /\ UNCHANGED streamVars
    /\ UNCHANGED facadeVars
    /\ UNCHANGED auxVars

WaitRelease ==
    /\ pc = "blocked"
    /\ tokens > 0
    /\ tokens' = tokens - 1
    /\ pc' = "loop"
    /\ UNCHANGED <<opts, input, ctx, cancelAt, attempt, resp, err, log, sleeps, ret>>
    /\ UNCHANGED streamVars
    /\ UNCHANGED facadeVars
    /\ UNCHANGED auxVars

(* the bucket refills with time, up to its burst *)
Refill ==
    /\ pc \in {"wait", "blocked"}
    /\ tokens < newRateLimiter(opts.RateLimit)
    /\ tokens' = tokens + 1
    /\ UNCHANGED <<opts, input, ctx, cancelAt, pc, attempt, resp, err, log, sleeps, ret>>
    /\ UNCHANGED streamVars
    /\ UNCHANGED facadeVars
    /\ UNCHANGED auxVars

(* the loop test of line 56 and the test attempt > 0 of line 57 *)
LoopHead ==
    /\ pc = "loop"
    /\ pc' = IF LoopCond(attempt)
             THEN (IF NeedsBackoff(attempt) THEN "sleep" ELSE "send")
             ELSE "after"
    /\ UNCHANGED <<opts, input, tokens, ctx, cancelAt, attempt, resp, err, log, sleeps, ret>>
    /\ UNCHANGED streamVars
    /\ UNCHANGED facadeVars
    /\ UNCHANGED auxVars

(* time.Sleep(waitTime): does not observe ctx *)
Sleep ==
    /\ pc = "sleep"
    /\ sleeps' = Append(sleeps, WaitTime(attempt))
    /\ pc' = "send"
    /\ UNCHANGED <<opts, input, tokens, ctx, cancelAt, attempt, resp, err, log, ret>>
    /\ UNCHANGED streamVars
    /\ UNCHANGED facadeVars
    /\ UNCHANGED auxVars

(* json.NewEncoder(&buf).Encode(body): the stream flag and the model name
   the encoded body carries *)
Encode(r) == [hasStream |-> r.hasStream, stream |-> r.Stream, model |-> r.name]

(* the method and path each operation passes to sendRequest *)
Method(op) ==
    CASE op \in {"ListModels", "ListRunningModels"} -> "GET"
      [] op = "DeleteModel" -> "DELETE"
      [] OTHER -> "POST"

Path(op) ==
    CASE op \in {"Generate", "GenerateStream"} -> "/api/generate"
      [] op \in {"Chat", "ChatStream"} -> "/api/chat"
      [] op = "ListModels" -> "/api/tags"
      [] op = "ShowModel" -> "/api/show"
      [] op = "CreateModel" -> "/api/create"
      [] op = "CopyModel" -> "/api/copy"
      [] op = "DeleteModel" -> "/api/delete"
      [] op = "PullModel" -> "/api/pull"
      [] op = "PushModel" -> "/api/push"
      [] op = "Embeddings" -> "/api/embeddings"
      [] op = "ListRunningModels" -> "/api/ps"
      [] OTHER -> "/"

(* the value of the query parameter `name` in c.baseURL + path: none of
   the paths has a query part *)
QueryName(op) == ""

(* http.NewRequestWithContext(ctx, method, c.baseURL+path, &buf) *)
NewRequest(op, r) ==
    [method |-> Method(op), path |-> Path(op), name |-> QueryName(op),
     hasStream |-> Encode(r).hasStream, stream |-> Encode(r).stream,
     model |-> Encode(r).model]

(* the handler of TestDeleteModel (api_test.go) *)
TestDeleteModelHandler(r) ==
    IF r.method # "DELETE" THEN 405
    ELSE IF r.name = "" THEN 400
    ELSE StatusOK

(* the statuses and bodies the server can answer the last request with *)
ServerStatuses ==
    IF server = "TestDeleteModel" THEN {TestDeleteModelHandler(sent[Len(sent)])} ELSE Statuses

ServerBodies == IF server = "TestDeleteModel" THEN {Garbage} ELSE Bodies

(* lines 67-82: encode the body, build the request, hand it to httpClient.Do *)
Send ==
    /\ pc = "send"
    /\ IF ~input.encodable
       THEN /\ ret' = [resp |-> 0, err |-> EncodeError]
            /\ pc' = "done"
            /\ UNCHANGED <<attempt, err, log>>
       ELSE IF ~input.buildable
       THEN /\ err' = BuildError
            /\ log' = Append(log, BuildEntry)
            /\ attempt' = attempt + 1
            /\ pc' = Continue
            /\ UNCHANGED ret
       ELSE /\ pc' = "inflight"
            /\ UNCHANGED <<attempt, err, log, ret>>
    /\ sent' = IF input.encodable /\ input.buildable
               THEN Append(sent, NewRequest(fop, req)) ELSE sent
    /\ UNCHANGED <<opts, input, tokens, ctx, cancelAt, resp, sleeps>>
    /\ UNCHANGED streamVars
    /\ UNCHANGED <<fop, fpc, req, fret, server>>
    /\ UNCHANGED auxVars

(* httpClient.Do returns an error: resp = nil, continue (lines 83-86) *)
DoFails ==
    /\ pc = "inflight"
    /\ resp' = 0
    /\ err' = TransportError(IF ctx = "done" THEN "context" ELSE "connection")
    /\ log' = Append(log, TransportEntry)
    /\ attempt' = attempt + 1
    /\ pc' = Continue
    /\ UNCHANGED <<opts, input, tokens, ctx, cancelAt, sleeps, ret>>
    /\ UNCHANGED streamVars
    /\ UNCHANGED facadeVars
    /\ UNCHANGED auxVars

(* httpClient.Do returns a response (lines 87-94); a done ctx makes Do fail *)
DoResponds ==
    /\ pc = "inflight"
    /\ ctx = "live"
    /\ \E code \in ServerStatuses, b \in ServerBodies :
        /\ log' = Append(log, Received(code, b))
        /\ resp' = Len(log) + 1
        /\ err' = Nil
        /\ IF IsRetryable(code)
           THEN /\ attempt' = attempt + 1
                /\ pc' = Continue
           ELSE /\ pc' = "after"
                /\ UNCHANGED attempt
    /\ UNCHANGED <<opts, input, tokens, ctx, cancelAt, sleeps, ret>>
    /\ UNCHANGED streamVars
    /\ UNCHANGED facadeVars
    /\ UNCHANGED auxVars

(* a status test that takes only the 4xx statuses as failures *)
NotOK_ClientErrorsOnly(code) == code >= 400 /\ code < 500

(* if resp.StatusCode != http.StatusOK *)
NotOK(code) == code # StatusOK

(* lines 97-112 *)
AfterLoop ==
    /\ pc = "after"
    /\ IF err # Nil
       THEN /\ ret' = [resp |-> 0, err |-> AllRetriesFailed(err)]
            /\ pc' = "done"
            /\ UNCHANGED log
       ELSE IF resp = 0
       THEN /\ pc' = "panic"          \* resp.StatusCode on a nil resp
            /\ UNCHANGED <<ret, log>>
       ELSE IF NotOK(log[resp].status)
       THEN /\ ret' = [resp |-> 0, err |-> StatusFailure(log[resp])]
            /\ log' = [log EXCEPT ![resp] = CloseBody(@)]   \* defer resp.Body.Close()
            /\ pc' = "done"
       ELSE /\ ret' = [resp |-> resp, err |-> Nil]
            /\ pc' = "done"
            /\ UNCHANGED log
    /\ UNCHANGED <<opts, input, tokens, ctx, cancelAt, attempt, resp, err, sleeps>>
    /\ UNCHANGED streamVars
    /\ UNCHANGED facadeVars
    /\ UNCHANGED auxVars

(* the caller cancels ctx, or its deadline passes, while the call runs *)
Cancel ==
    /\ ctx = "live"
    /\ pc \notin {"done", "panic"}
    /\ ctx' = "done"
    /\ cancelAt' = [pc |-> pc, attempt |-> attempt]
    /\ UNCHANGED <<opts, input, tokens, pc, attempt, resp, err, log, sleeps, ret>>
    /\ UNCHANGED streamVars
    /\ UNCHANGED facadeVars
    /\ UNCHANGED auxVars

InitStreamIdle ==
    /\ sop = "none"
    /\ sbody = << >>
    /\ spos = 0
    /\ spc = "idle"
    /\ pending = "none"
    /\ received = << >>
    /\ chClosed = FALSE
    /\ bodyCloses = 0
    /\ closeOrder = << >>
    /\ consumer = "none"

NextSend ==
    \/ Wait
    \/ WaitRelease
    \/ Refill
    \/ LoopHead
    \/ Sleep
    \/ Send
    \/ DoFails
    \/ DoResponds
    \/ AfterLoop
    \/ Cancel

(* no Duration is being encoded or decoded *)
InitCodecIdle ==
    /\ dflow = "none"
    /\ dpc = "idle"
    /\ dur = [neg |-> FALSE, day |-> 0, sod |-> 0, nsec |-> 0]
    /\ text = << >>
    /\ dst = [neg |-> FALSE, day |-> 0, sod |-> 0, nsec |-> 0]
    /\ derr = "none"
    /\ creq = "none"
    /\ cjson = << >>

(* no limiter is observed on its own *)
InitLimiterIdle ==
    /\ lstate = "none"
    /\ lrps = 1
    /\ lnow = 0
    /\ lcredit = 0
    /\ sleeping = {}
    /\ admitted = << >>

Calls == {"Generate", "GenerateStream"}

InitSharedIdle ==
    /\ shared = FALSE
    /\ cpc = [c \in Calls |-> "none"]
    /\ cattempt = [c \in Calls |-> 0]
    /\ csent = [c \in Calls |-> << >>]

InitAuxIdle == InitCodecIdle /\ InitLimiterIdle /\ InitSharedIdle

(* a sendRequest call taken on its own *)
InitFacadeIdle ==
    /\ fop = "none"
    /\ fpc = "sending"
    /\ req = [hasStream |-> FALSE, Stream |-> FALSE, name |-> ""]
    /\ sent = << >>
    /\ fret = "none"
    /\ server = "any"

Init == InitSend /\ InitStreamIdle /\ InitFacadeIdle /\ InitAuxIdle

Spec == Init /\ [][NextSend]_vars

----------------------------------------------------------------------------
(* The decode goroutines of GenerateStream, ChatStream, PullModel, PushModel *)

StreamOps == {"GenerateStream", "ChatStream", "PullModel", "PushModel"}

(* A body is a sequence of JSON texts followed by end of input.  A text is   *)
(* either a value that decodes into the operation's response type, or text   *)
(* on which decoder.Decode fails (malformed or truncated JSON).              *)
Values == 1 .. NumValues
Malformed == [wellFormed |-> FALSE, value |-> 0]
JSONText(v) == [wellFormed |-> TRUE, value |-> v]
Texts == {Malformed} \cup {JSONText(v) : v \in Values}
StreamBodies == UNION {[1 .. n -> Texts] : n \in 0 .. MaxBodyLen}

NoItem == [value |-> 0, Error |-> "none"]
(* GenerateStreamResponse{GenerateResponse: &response}, ChatStreamResponse{ChatResponse: &response}, *)
(* or the ModelResponse itself                                                                      *)
SuccessItem(v) == [value |-> v, Error |-> "nil"]
(* GenerateStreamResponse{Error: err}, ChatStreamResponse{Error: err} *)
ErrorItem(e) == [value |-> 0, Error |-> e]

(* decoder.Decode(&response) with the decoder at position p of the body *)
Decode(body, p) ==
    IF p >= Len(body) THEN [err |-> "EOF", value |-> 0]
    ELSE IF ~body[p + 1].wellFormed THEN [err |-> "syntax", value |-> 0]
    ELSE [err |-> "nil", value |-> body[p + 1].value]

(* an error branch without the io.EOF test *)
PublishesError_NoEOFTest(op, e) == op \in {"GenerateStream", "ChatStream"}

(* if err != io.EOF { ch <- ...{Error: err} }: PullModel and PushModel have *)
(* an empty branch there                                                     *)
PublishesError(op, e) ==
    e # "EOF" /\ op \in {"GenerateStream", "ChatStream"}

(* a goroutine that defers only close(ch) *)
DeferOrder_NoBodyClose(op) == <<"ch">>

(* the deferred calls in the order they run (last deferred first) *)
DeferOrder(op) ==
    IF op = "GenerateStream" THEN <<"body", "ch">> ELSE <<"ch", "body">>

(* the state in which sendRequest has returned a 200 response to the facade *)
InitSendReturned ==
    /\ opts = [MaxRetries |-> 0, RetryWaitTime |-> 1,
               RetryMaxWaitTime |-> DefaultRetryMaxWaitTime, RateLimit |-> 1]
    /\ input = [encodable |-> TRUE, buildable |-> TRUE]
    /\ tokens = 0
    /\ ctx = "live"
    /\ cancelAt = [pc |-> "none", attempt |-> 0]
    /\ pc = "done"
    /\ attempt = 0
    /\ resp = 1
    /\ err = Nil
    /\ log = <<ResponseEntry(StatusOK, Garbage)>>
    /\ sleeps = << >>
    /\ ret = [resp |-> 1, err |-> Nil]
    /\ fpc = "streaming"
    /\ req = [hasStream |-> TRUE, Stream |-> TRUE, name |-> ""]
    /\ sent = <<NewRequest(fop, req)>>
    /\ fret = "channel"
    /\ server = "any"

(* ch := make(chan ...); go func() {...}(); return ch, nil *)
InitStream ==
    /\ sop \in StreamOps
    /\ fop = sop
    /\ InitSendReturned
    /\ sbody \in StreamBodies
    /\ spos = 0
    /\ spc = "decode"
    /\ pending = NoItem
    /\ received = << >>
    /\ chClosed = FALSE
    /\ bodyCloses = 0
    /\ closeOrder = << >>
    /\ consumer = "reading"
    /\ InitAuxIdle

(* a task that goes on to the next Decode without the channel send *)
AfterDecode_NoHandOver == "decode"

(* after a successful Decode the task is at `ch <- ...`: ch was made without *)
(* a buffer, so the task stays there until the consumer receives             *)
AfterDecode == "send"

(* one pass of the for loop up to the channel send or the return *)
DecodeStep ==
    /\ spc = "decode"
    /\ LET d == Decode(sbody, spos)
       IN  IF d.err # "nil"
           THEN IF PublishesError(sop, d.err)
                THEN /\ pending' = ErrorItem(d.err)
                     /\ spc' = "sendErr"
                     /\ UNCHANGED spos
                ELSE /\ spc' = "defer1"
                     /\ UNCHANGED <<pending, spos>>
           ELSE /\ spos' = spos + 1
                /\ pending' = SuccessItem(d.value)
                /\ spc' = AfterDecode
    /\ UNCHANGED <<sop, sbody, received, chClosed, bodyCloses, closeOrder, consumer>>
    /\ UNCHANGED sendVars
    /\ UNCHANGED facadeVars
    /\ UNCHANGED auxVars

(* ch is unbuffered: the send completes when the consumer receives *)
Receive ==
    /\ spc \in {"send", "sendErr"}
    /\ consumer = "reading"
    /\ received' = Append(received, pending)
    /\ pending' = NoItem
    /\ spc' = IF spc = "send" THEN "decode" ELSE "defer1"
    /\ UNCHANGED <<sop, sbody, spos, chClosed, bodyCloses, closeOrder, consumer>>
    /\ UNCHANGED sendVars
    /\ UNCHANGED facadeVars
    /\ UNCHANGED auxVars

(* the two deferred calls, run when the goroutine returns *)
RunDeferred ==
    /\ spc \in {"defer1", "defer2"}
    /\ LET call == DeferOrder(sop)[IF spc = "defer1" THEN 1 ELSE 2]
       IN  /\ IF call = "body"
              THEN bodyCloses' = bodyCloses + 1 /\ UNCHANGED chClosed
              ELSE chClosed' = TRUE /\ UNCHANGED bodyCloses
           /\ closeOrder' = Append(closeOrder, call)
    /\ spc' = IF spc = "defer1" /\ Len(DeferOrder(sop)) > 1 THEN "defer2" ELSE "exited"
    /\ UNCHANGED <<sop, sbody, spos, pending, received, consumer>>
    /\ UNCHANGED sendVars
    /\ UNCHANGED facadeVars
    /\ UNCHANGED auxVars

(* the consumer's range loop ends when it finds ch closed *)
ConsumerSeesClose ==
    /\ consumer = "reading"
    /\ chClosed
    /\ consumer' = "finished"
    /\ UNCHANGED <<sop, sbody, spos, spc, pending, received, chClosed, bodyCloses, closeOrder>>
    /\ UNCHANGED sendVars
    /\ UNCHANGED facadeVars
    /\ UNCHANGED auxVars

(* the consumer stops receiving before the channel is closed *)
Abandon ==
    /\ consumer = "reading"
    /\ ~chClosed
    /\ consumer' = "abandoned"
    /\ UNCHANGED <<sop, sbody, spos, spc, pending, received, chClosed, bodyCloses, closeOrder>>
    /\ UNCHANGED sendVars
    /\ UNCHANGED facadeVars
    /\ UNCHANGED auxVars

NextStream ==
    \/ DecodeStep
    \/ Receive
    \/ RunDeferred
    \/ ConsumerSeesClose
    \/ Abandon

SpecStream == InitStream /\ [][NextStream]_vars

----------------------------------------------------------------------------
(* The operation facade *)

SyncOps == {"Generate", "Chat", "ListModels", "ShowModel", "CreateModel", "CopyModel",
            "DeleteModel", "Embeddings", "ListRunningModels"}
FacadeOps == SyncOps \cup StreamOps

(* the operations whose request type has a Stream field *)
HasStreamField(op) == op \in {"Generate", "Chat"} \cup StreamOps

(* the model names a caller passes to DeleteModel *)
Names == {"llama3.2:1b"}

(* the request objects a caller can pass to op *)
Requests(op) ==
    IF HasStreamField(op)
    THEN {[hasStream |-> TRUE, Stream |-> b, name |-> ""] : b \in BOOLEAN}
    ELSE IF op = "DeleteModel"
    THEN {[hasStream |-> FALSE, Stream |-> FALSE, name |-> n] : n \in Names}
    ELSE {[hasStream |-> FALSE, Stream |-> FALSE, name |-> ""]}

(* req.Stream = false in Generate, req.Stream = true in the streaming      *)
(* operations; Chat and the other operations leave the request as passed   *)
SetStream(op, r) ==
    IF op = "Generate" THEN [r EXCEPT !.Stream = FALSE]
    ELSE IF op \in StreamOps THEN [r EXCEPT !.Stream = TRUE]
    ELSE r

(* the operations that run defer resp.Body.Close() after sendRequest returned *)
DefersClose(op) == op \in SyncOps \ {"DeleteModel"}

(* the operations that decode one JSON value from the body *)
DecodesResult(op) == op \in SyncOps \ {"CreateModel", "CopyModel", "DeleteModel"}

InitFacade ==
    /\ opts \in {o \in Options : o.RetryWaitTime = 1}
    /\ input \in Inputs
    /\ tokens \in 0 .. newRateLimiter(opts.RateLimit)
    /\ ctx = "live"
    /\ cancelAt = [pc |-> "none", attempt |-> 0]
    /\ pc = "idle"
    /\ attempt = 0
    /\ resp = 0
    /\ err = Nil
    /\ log = << >>
    /\ sleeps = << >>
    /\ ret = NoRet
    /\ InitStreamIdle
    /\ fop \in FacadeOps
    /\ fpc = "entry"
    /\ req \in Requests(fop)
    /\ sent = << >>
    /\ fret = "none"
    /\ server = "any"
    /\ InitAuxIdle

(* DeleteModel called against the server of TestDeleteModel *)
InitDeleteModel ==
    /\ opts \in {o \in Options : o.RetryWaitTime = 1}
    /\ input \in Inputs
    /\ tokens \in 0 .. newRateLimiter(opts.RateLimit)
    /\ ctx = "live"
    /\ cancelAt = [pc |-> "none", attempt |-> 0]
    /\ pc = "idle"
    /\ attempt = 0
    /\ resp = 0
    /\ err = Nil
    /\ log = << >>
    /\ sleeps = << >>
    /\ ret = NoRet
    /\ InitStreamIdle
    /\ fop = "DeleteModel"
    /\ fpc = "entry"
    /\ req \in Requests(fop)
    /\ sent = << >>
    /\ fret = "none"
    /\ server = "TestDeleteModel"
    /\ InitAuxIdle

(* the operation up to its call of c.sendRequest *)
FacadeCall ==
    /\ fpc = "entry"
    /\ req' = SetStream(fop, req)
    /\ fpc' = "sending"
    /\ pc' = "wait"
    /\ UNCHANGED <<opts, input, tokens, ctx, cancelAt, attempt, resp, err, log, sleeps, ret>>
    /\ UNCHANGED <<fop, sent, fret, server>>
    /\ UNCHANGED streamVars
    /\ UNCHANGED auxVars

(* the operation after sendRequest returned *)
FacadeReturn ==
    /\ fpc = "sending"
    /\ pc = "done"
    /\ IF ret.err # Nil
       THEN /\ fret' = "error"
            /\ fpc' = "returned"
            /\ UNCHANGED log
       ELSE IF fop \in StreamOps
       THEN /\ fret' = "channel"          \* the goroutine owns the body from here
            /\ fpc' = "streaming"
            /\ UNCHANGED log
       ELSE /\ \E decoded \in BOOLEAN :
                fret' = IF ~DecodesResult(fop) THEN "nil"
                        ELSE IF decoded THEN "result" ELSE "decode error"
            /\ log' = IF DefersClose(fop) THEN [log EXCEPT ![ret.resp] = CloseBody(@)] ELSE log
            /\ fpc' = "returned"
    /\ UNCHANGED <<opts, input, tokens, ctx, cancelAt, pc, attempt, resp, err, sleeps, ret>>
    /\ UNCHANGED <<fop, req, sent, server>>
    /\ UNCHANGED streamVars
    /\ UNCHANGED auxVars

NextFacade ==
    \/ FacadeCall
    \/ FacadeReturn
    \/ NextSend

SpecFacade == InitFacade /\ [][NextFacade]_vars

SpecDeleteModel == InitDeleteModel /\ [][NextFacade]_vars

----------------------------------------------------------------------------
(* Properties of Client.sendRequest *)

Returned == pc = "done"

(* the statuses the dispatcher contract calls retryable: 429 and 5xx *)
RetryableStatus(code) == code = 429 \/ code \in 500 .. 599

IsResponse(e) == e.kind = "response"
FailedAttempt(e) == e.kind = "transport" \/ (IsResponse(e) /\ RetryableStatus(e.status))
FinalResponse(e) == IsResponse(e) /\ ~RetryableStatus(e.status)

(* the number of requests handed to httpClient.Do *)
HTTPAttempts == Cardinality({i \in 1 .. Len(log) : log[i].kind # "build"})

(* every attempt 0..MaxRetries was made and ended in a transport failure or a retryable status *)
AllAttemptsFailed ==
    /\ opts.MaxRetries >= 0
    /\ Len(log) = opts.MaxRetries + 1
    /\ \A i \in 1 .. Len(log) : FailedAttempt(log[i])

(* C1: a call all of whose attempts end in a transport failure or a retryable
   status returns the all-retries-failed error, never a status or API error. *)
C1_AllRetriesFailed ==
    (Returned /\ AllAttemptsFailed) => ret.err.kind = "all retries failed"

(* C2: a call whose ctx became done during an in-flight HTTP attempt returns an
   error with no further attempt and no further backoff sleep: the attempt in
   flight at the cancellation is the last one. *)
C2_NoRetryAfterCancel ==
    (Returned /\ cancelAt.pc = "inflight") =>
        /\ ret.err # Nil
        /\ Len(log) = cancelAt.attempt + 1
        /\ Len(sleeps) = cancelAt.attempt

(* C3: a call whose ctx became done while it was blocked in the limiter's Wait
   returns the rate-limit (cancellation) error and hands no request to the
   HTTP client. *)
C3_WaitObservesCancel ==
    (Returned /\ cancelAt.pc = "blocked") =>
        /\ ret.err.kind = "rate limit error"
        /\ HTTPAttempts = 0

(* the first n attempts received 503 and attempt n+1 received 200 *)
N503Then200(n) ==
    /\ Len(log) >= n + 1
    /\ \A i \in 1 .. n : IsResponse(log[i]) /\ log[i].status = 503
    /\ IsResponse(log[n + 1]) /\ log[n + 1].status = 200

(* C4: for 0 <= N <= MaxRetries, N responses 503 followed by a 200 make the
   call succeed with that 200 response after exactly N+1 HTTP attempts and N
   backoff sleeps. *)
C4_RetriesThenSuccess ==
    \A n \in 0 .. opts.MaxRetries :
        (Returned /\ N503Then200(n)) =>
            /\ ret.err = Nil
            /\ ret.resp = n + 1
            /\ HTTPAttempts = n + 1
            /\ Len(sleeps) = n

C4_Witness ==
    /\ Returned
    /\ N503Then200(2)
    /\ ret.err = Nil

(* the call ran to its end with a request sent at every iteration *)
EveryAttemptFailed ==
    /\ pc \in {"done", "panic"}
    /\ input.encodable /\ input.buildable
    /\ \A i \in 1 .. Len(log) : FailedAttempt(log[i])

(* C5: a call never makes more than MaxRetries+1 HTTP attempts, and makes
   exactly MaxRetries+1 when every attempt is a transport failure or a
   retryable status. *)
C5_AttemptBound ==
    /\ HTTPAttempts <= opts.MaxRetries + 1
    /\ EveryAttemptFailed => HTTPAttempts = opts.MaxRetries + 1

C5_Witness ==
    /\ EveryAttemptFailed
    /\ opts.MaxRetries = 2
    /\ log[1].kind = "transport"
    /\ HTTPAttempts = 3

(* C6: a response whose status is neither 429 nor 5xx is the last attempt of
   its call; a 404 on the first attempt gives one HTTP attempt, no sleep, and
   an error that carries the decoded message when the body has one. *)
C6_FinalStatusEndsLoop ==
    /\ \A i \in 1 .. Len(log) : FinalResponse(log[i]) => i = Len(log)
    /\ (Returned /\ Len(log) >= 1 /\ IsResponse(log[1]) /\ log[1].status = 404) =>
            /\ HTTPAttempts = 1
            /\ Len(sleeps) = 0
            /\ ret.resp = 0
            /\ ret.err # Nil
            /\ log[1].body.decodes => ret.err.msg = log[1].body.error

C6_Witness ==
    /\ Returned
    /\ Len(log) = 1
    /\ log[1].status = 404
    /\ log[1].body.decodes
    /\ ret.err.msg = "invalid model"

(* C7: a final response whose status is not 200 makes the call fail with an
   API error carrying the status code and the decoded message when the body
   decodes, and with a status error carrying the status code when it does not. *)
C7_ErrorCarriesStatus ==
    (Returned /\ Len(log) >= 1 /\ FinalResponse(log[Len(log)]) /\ log[Len(log)].status # 200) =>
        LET e == log[Len(log)]
        IN  IF e.body.decodes
            THEN ret.err.kind = "api error" /\ ret.err.status = e.status /\ ret.err.msg = e.body.error
            ELSE ret.err.kind = "http status" /\ ret.err.status = e.status

(* C8: when the call returns an error, every response body it received has
   been closed. *)
C8_BodiesClosedOnError ==
    (Returned /\ ret.err # Nil) =>
        \A i \in 1 .. Len(log) : IsResponse(log[i]) => log[i].closes >= 1

C8_Witness ==
    /\ Returned
    /\ ret.err # Nil
    /\ Len(log) = 2
    /\ IsResponse(log[1]) /\ RetryableStatus(log[1].status)
    /\ FinalResponse(log[2])

----------------------------------------------------------------------------
(* Properties of the streaming operations *)

IsPrefix(a, b) == Len(a) <= Len(b) /\ \A i \in 1 .. Len(a) : a[i] = b[i]

(* the success items of the first k texts of the body, in body order *)
SuccessItems(k) == [i \in 1 .. k |-> [value |-> sbody[i].value, Error |-> "nil"]]

(* the body holds only well-formed values, then clean end of input *)
AllWellFormed == \A i \in 1 .. Len(sbody) : sbody[i].wellFormed

(* C9: for each streaming operation, a body of k well-formed values followed
   by clean end of input yields exactly the k success items in body order (at
   every moment a prefix of them), and the channel is closed after the k-th
   with no error item. *)
C9_StreamYieldsAllInOrder ==
    AllWellFormed =>
        /\ IsPrefix(received, SuccessItems(Len(sbody)))
        /\ chClosed => received = SuccessItems(Len(sbody))
        /\ spc = "exited" => chClosed

C9_Witness ==
    /\ AllWellFormed
    /\ Len(sbody) = 3
    /\ sbody[1] # sbody[2]
    /\ consumer = "finished"
    /\ received = SuccessItems(3)

(* the body holds k well-formed values followed by malformed JSON *)
MalformedAfter(k) ==
    /\ Len(sbody) = k + 1
    /\ \A i \in 1 .. k : sbody[i].wellFormed
    /\ ~sbody[k + 1].wellFormed

(* C10: for each streaming operation, a body of k well-formed values followed
   by malformed JSON yields the k success items, then exactly one error item,
   then the closed channel. *)
C10_DecodeErrorPublished ==
    \A k \in 0 .. MaxBodyLen :
        (MalformedAfter(k) /\ chClosed) =>
            /\ Len(received) = k + 1
            /\ SubSeq(received, 1, k) = SuccessItems(k)
            /\ received[k + 1].Error \notin {"nil", "none"}

(* the decode goroutine can take a step: decode, complete a send, or run a deferred call *)
TaskCanStep == ENABLED (DecodeStep \/ Receive \/ RunDeferred)

(* C11: once the consumer has stopped receiving, the decode goroutine is never
   stuck: it has exited (with the body closed) or it can still take a step. *)
C11_AbandonedTaskNotStuck ==
    consumer = "abandoned" =>
        \/ spc = "exited" /\ bodyCloses >= 1
        \/ TaskCanStep

(* C12: the body handed to the decode goroutine is never closed more than
   once, is closed only while the goroutine is returning, and has been closed
   exactly once when the goroutine has exited, on the end-of-input branch and
   on the decode-error branch alike. *)
C12_BodyClosedOnce ==
    /\ bodyCloses <= 1
    /\ bodyCloses = 1 => spc \in {"defer1", "defer2", "exited"}
    /\ spc = "exited" => bodyCloses = 1

C12_Witness ==
    /\ spc = "exited"
    /\ consumer = "finished"
    /\ bodyCloses = 1
    /\ Len(received) = 2
    /\ ~AllWellFormed

----------------------------------------------------------------------------
(* Properties of the operation facade *)

(* C13: every body a synchronous operation with a stream flag (Generate,
   Chat) hands to the HTTP client carries stream = false, and every body a
   streaming operation hands to it carries stream = true, whatever the caller
   put in the request's Stream field. *)
C13_StreamFlagForced ==
    \A i \in 1 .. Len(sent) :
        /\ fop \in {"Generate", "Chat"} => sent[i].stream = FALSE
        /\ fop \in StreamOps => sent[i].stream = TRUE

(* C14: a non-streaming operation that got a 200 response from sendRequest
   has closed that response's body when it returns, on its success path and
   on its decode-error path. *)
C14_FacadeClosesBody ==
    (fpc = "returned" /\ fop \in SyncOps /\ ret.resp # 0) =>
        log[ret.resp].closes >= 1

(***************************************************************************)
(* Duration (types.go): the JSON text form of a time.Duration.             *)
(***************************************************************************)
(* the bytes of a JSON text, one character each *)
Quote == "\""
DigitChars == <<"0", "1", "2", "3", "4", "5", "6", "7", "8", "9">>
UnitChars == {"s", "m", "h", "d"}

IsDigit(c) == \E i \in 1 .. 10 : DigitChars[i] = c

DigitValue(c) == (CHOOSE i \in 1 .. 10 : DigitChars[i] = c) - 1

(* fmt.Sprintf("%d", n) for n >= 0 *)
RECURSIVE FormatInt(_)
FormatInt(n) ==
    IF n < 10 THEN <<DigitChars[n + 1]>>
    ELSE Append(FormatInt(n \div 10), DigitChars[(n % 10) + 1])

(* 2^k seconds *)
RECURSIVE Pow2Secs(_)
Pow2Secs(k) ==
    IF k <= 30 THEN N3(0, 2 ^ k, 0)
    ELSE Add3(Pow2Secs(k - 1), Pow2Secs(k - 1))

(* the binary exponent of a whole-second count of at least one second *)
Exponent(d) ==
    LET w == N3(d.day, d.sod, 0)
    IN  CHOOSE k \in 0 .. 33 : ~Less3(w, Pow2Secs(k)) /\ Less3(w, Pow2Secs(k + 1))

(* time.Duration.Seconds() is float64(sec) + float64(nsec)/1e9: the sum is
   rounded to the nearest float64, which is the next whole second when the
   fraction is within half a unit in the last place of it *)
RoundsUp(d) ==
    /\ d.day > 0 \/ d.sod > 0
    /\ LET k == Exponent(d)
       IN  /\ MantissaBits - k <= 30
           /\ Second - d.nsec <= Second \div (2 ^ (MantissaBits - k))

(* a segment is appended when its number is positive *)
EmitsSegment_Zero(n) == n >= 0

EmitsSegment(n) == n > 0

Segment(n, unit) == IF EmitsSegment(n) THEN FormatInt(n) \o <<unit>> ELSE << >>

(* Duration.MarshalJSON *)
MarshalJSON(d) ==
    LET durSecs == IF d.neg THEN N3(0, 0, 0)
                   ELSE IF RoundsUp(d) THEN N3(d.day, d.sod + 1, 0)
                   ELSE N3(d.day, d.sod, 0)
        days == durSecs.day
        hours == durSecs.sod \div SecsPerHour
        mins == (durSecs.sod % SecsPerHour) \div SecsPerMin
        secs == durSecs.sod % SecsPerMin
    IN  IF durSecs.day = 0 /\ durSecs.sod = 0 THEN <<Quote, Quote>>
        ELSE <<Quote>> \o Segment(days, "d") \o Segment(hours, "h")
                       \o Segment(mins, "m") \o Segment(secs, "s") \o <<Quote>>

(* strings.Trim(s, `"`) *)
RECURSIVE TrimLeft(_)
TrimLeft(s) == IF s # << >> /\ Head(s) = Quote THEN TrimLeft(Tail(s)) ELSE s

RECURSIVE TrimRight(_)
TrimRight(s) ==
    IF s # << >> /\ s[Len(s)] = Quote THEN TrimRight(SubSeq(s, 1, Len(s) - 1)) ELSE s

Trim(s) == TrimRight(TrimLeft(s))

(* strconv.ParseInt(current, 10, 64) of a run of digits *)
RECURSIVE ParseInt(_)
ParseInt(current) ==
    IF current = << >> THEN 0
    ELSE 10 * ParseInt(SubSeq(current, 1, Len(current) - 1)) + DigitValue(current[Len(current)])

(* the largest number strconv.ParseInt(_, 10, 64) accepts: 2^63 - 1 *)
MaxInt64Digits ==
    <<"9", "2", "2", "3", "3", "7", "2", "0", "3", "6",
      "8", "5", "4", "7", "7", "5", "8", "0", "7">>

RECURSIVE StripZeros(_)
StripZeros(ds) == IF ds # << >> /\ Head(ds) = "0" THEN StripZeros(Tail(ds)) ELSE ds

(* a > b for two rows of digits of the same length *)
RECURSIVE DigitsGreater(_, _)
DigitsGreater(a, b) ==
    IF a = << >> THEN FALSE
    ELSE IF Head(a) # Head(b) THEN DigitValue(Head(a)) > DigitValue(Head(b))
    ELSE DigitsGreater(Tail(a), Tail(b))

OutOfRange(current) ==
    LET ds == StripZeros(current)
    IN  \/ Len(ds) > Len(MaxInt64Digits)
        \/ Len(ds) = Len(MaxInt64Digits) /\ DigitsGreater(ds, MaxInt64Digits)

(* the error of strconv.ParseInt(current, 10, 64) for a row of digits *)
ParseIntErr(current) ==
    IF current = << >> THEN "invalid syntax"
    ELSE IF OutOfRange(current) THEN "value out of range"
    ELSE "nil"

(* a scan that looks at the unit before it parses the number *)
StopError_UnitFirst(current, c) ==
    IF c \notin UnitChars THEN "invalid duration unit" ELSE ParseIntErr(current)

(* the error at a character that is not a digit: ParseInt runs first, the *)
(* switch on the unit after it                                            *)
StopError(current, c) ==
    IF ParseIntErr(current) # "nil" THEN ParseIntErr(current)
    ELSE IF c \notin UnitChars THEN "invalid duration unit"
    ELSE "nil"

(* the seconds in the unit of a segment *)
UnitSeconds_DayAsHour(c) ==
    CASE c = "s" -> 1
      [] c = "m" -> SecsPerMin
      [] c = "h" -> SecsPerHour
      [] c = "d" -> SecsPerHour

UnitSeconds(c) ==
    CASE c = "s" -> 1
      [] c = "m" -> SecsPerMin
      [] c = "h" -> SecsPerHour
      [] c = "d" -> SecsPerDay

(* time.Duration(value) * unit *)
Times(value, c) ==
    LET perDay == SecsPerDay \div UnitSeconds(c)
    IN  Mod64(N3(value \div perDay, (value % perDay) * UnitSeconds(c), 0))

(* total += ... *)
Accumulate_Overwrite(total, term) == term

Accumulate(total, term) == Mod64(Add3(total, term))

(* if current != "" after the loop *)
TrailingDigits_Ignored(current) == FALSE

TrailingDigits(current) == current # << >>

(* the loop of Duration.UnmarshalJSON from position i *)
RECURSIVE Scan(_, _, _, _)
Scan(s, i, total, current) ==
    IF i > Len(s)
    THEN IF TrailingDigits(current)
         THEN [err |-> "invalid duration format", total |-> total]
         ELSE [err |-> "nil", total |-> total]
    ELSE IF IsDigit(s[i]) THEN Scan(s, i + 1, total, Append(current, s[i]))
    ELSE IF StopError(current, s[i]) # "nil"
         THEN [err |-> StopError(current, s[i]), total |-> total]
    ELSE Scan(s, i + 1, Accumulate(total, Times(ParseInt(current), s[i])), << >>)

(* Duration.UnmarshalJSON: the error returned and the value left in *d *)
UnmarshalJSON(b, d) ==
    LET s == Trim(b)
        r == Scan(s, 1, N3(0, 0, 0), << >>)
    IN  IF s = << >> THEN [err |-> "nil", d |-> Duration(0, 0, 0)]
        ELSE IF r.err # "nil" THEN [err |-> r.err, d |-> d]
        ELSE [err |-> "nil", d |-> Int64(r.total)]

(***************************************************************************)
(* The codec at work: a Duration is encoded and the text decoded again, or *)
(* a given text is decoded into a Duration that holds an earlier value.    *)
(***************************************************************************)
MaxDays == 1
MaxTextLen == 4

BigDays == {200, 106751}

Durations ==
    {d \in {Duration(day, h * SecsPerHour + m * SecsPerMin + sc, ns) :
                day \in (0 .. MaxDays) \cup BigDays, h \in {0, 1, 23},
                m \in {0, 1, 47, 59}, sc \in {0, 1, 16, 59},
                ns \in {0, 1, 500000000, 999999999}} :
        Less3(d, TwoTo63)}

TextChars == {"1", "2", "d", "h", "m", "s", "x"}

RECURSIVE TextsOfLen(_)
TextsOfLen(n) ==
    IF n = 0 THEN {<< >>}
    ELSE {Append(t, c) : t \in TextsOfLen(n - 1), c \in TextChars}

ShortTexts == UNION {TextsOfLen(n) : n \in 0 .. MaxTextLen}

(* texts around the largest int64 count of nanoseconds *)
LongTexts ==
    {<<"1", "0", "6", "7", "5", "1", "d">>,
     <<"1", "0", "6", "7", "5", "2", "d">>,
     <<"1", "0", "6", "7", "5", "1", "d", "2", "3", "h", "4", "7", "m", "1", "6", "s">>,
     <<"1", "0", "6", "7", "5", "1", "d", "2", "3", "h", "4", "7", "m", "1", "7", "s">>,
     <<"2", "5", "6", "2", "0", "4", "7", "h", "4", "7", "m", "1", "7", "s">>,
     <<"2", "1", "3", "5", "0", "4", "d">>}

(* texts with a number beyond the largest int64 *)
HugeNumberTexts ==
    LET TwentyOnes == [i \in 1 .. 20 |-> "1"]
    IN  {TwentyOnes \o <<"s">>,
         TwentyOnes \o <<"x">>,
         <<"2", "h">> \o TwentyOnes \o <<"m">>,
         <<"9", "2", "2", "3", "3", "7", "2", "0", "3", "6",
           "8", "5", "4", "7", "7", "5", "8", "0", "8", "s">>}

JSONTexts == {<<Quote>> \o t \o <<Quote>> : t \in ShortTexts \cup LongTexts \cup HugeNumberTexts}

(* what the destination of a decoding held before *)
DstBefore == Duration(0, 7, 0)

(* no request is under way *)
InitNoRequest ==
    /\ opts = [MaxRetries |-> 0, RetryWaitTime |-> 1,
               RetryMaxWaitTime |-> DefaultRetryMaxWaitTime, RateLimit |-> 1]
    /\ input = [encodable |-> TRUE, buildable |-> TRUE]
    /\ tokens = 0
    /\ ctx = "live"
    /\ cancelAt = [pc |-> "none", attempt |-> 0]
    /\ pc = "idle"
    /\ attempt = 0
    /\ resp = 0
    /\ err = Nil
    /\ log = << >>
    /\ sleeps = << >>
    /\ ret = NoRet
    /\ InitStreamIdle
    /\ InitFacadeIdle

InitCodec ==
    /\ InitNoRequest
    /\ InitLimiterIdle
    /\ InitSharedIdle
    /\ dflow \in {"roundtrip", "decode"}
    /\ dflow = "roundtrip" => dur \in Durations /\ text = << >> /\ dpc = "marshal"
    /\ dflow = "decode" => dur = Duration(0, 0, 0) /\ text \in JSONTexts /\ dpc = "unmarshal"
    /\ dst = DstBefore
    /\ derr = "none"
    /\ creq = "none"
    /\ cjson = << >>

(* json.Marshal of the Duration *)
Marshal ==
    /\ dpc = "marshal"
    /\ text' = MarshalJSON(dur)
    /\ dpc' = "unmarshal"
    /\ UNCHANGED <<dflow, dur, dst, derr, creq, cjson>>
    /\ UNCHANGED <<sendVars, streamVars, facadeVars, limiterVars, sharedVars>>

(* json.Unmarshal of the text into the destination *)
Unmarshal ==
    /\ dpc = "unmarshal"
    /\ LET r == UnmarshalJSON(text, dst)
       IN  /\ derr' = r.err
           /\ dst' = r.d
    /\ dpc' = "done"
    /\ UNCHANGED <<dflow, dur, text, creq, cjson>>
    /\ UNCHANGED <<sendVars, streamVars, facadeVars, limiterVars, sharedVars>>

NextCodec == Marshal \/ Unmarshal

SpecDuration == InitCodec /\ [][NextCodec]_vars

(* ---- claims about the codec ---- *)

(* the text between the quotes *)
Inner == IF Len(text) >= 2 THEN SubSeq(text, 2, Len(text) - 1) ELSE << >>

(* C15: when a non-negative whole number of seconds has been encoded and
   the text decoded again, the decoding succeeded and the destination
   holds exactly the interval that was encoded. *)
C15_RoundTripWholeSeconds ==
    (dflow = "roundtrip" /\ dpc = "done" /\ dur.nsec = 0) =>
        derr = "nil" /\ dst = dur

C15_Witness ==
    /\ dflow = "roundtrip" /\ dpc = "done"
    /\ dur = Duration(106751, 23 * SecsPerHour + 47 * SecsPerMin + 16, 0)
    /\ dst = dur

(* reading a text as a row of <digits><unit> segments *)
Decimals == {"0", "1", "2", "3", "4", "5", "6", "7", "8", "9"}

DecimalOf == "0" :> 0 @@ "1" :> 1 @@ "2" :> 2 @@ "3" :> 3 @@ "4" :> 4 @@
             "5" :> 5 @@ "6" :> 6 @@ "7" :> 7 @@ "8" :> 8 @@ "9" :> 9

RECURSIVE DigitRun(_)
DigitRun(t) == IF t = << >> \/ Head(t) \notin Decimals THEN 0 ELSE 1 + DigitRun(Tail(t))

RECURSIVE NumberOf(_, _)
NumberOf(ds, acc) == IF ds = << >> THEN acc ELSE NumberOf(Tail(ds), 10 * acc + DecimalOf[Head(ds)])

BadSegment == [num |-> << >>, unit |-> "?"]

RECURSIVE Segments(_)
Segments(t) ==
    IF t = << >> THEN << >>
    ELSE LET n == DigitRun(t)
         IN  IF n = 0 \/ n = Len(t) THEN <<BadSegment>>
             ELSE <<[num |-> SubSeq(t, 1, n), unit |-> t[n + 1]]>>
                      \o Segments(SubSeq(t, n + 2, Len(t)))

UnitRank == "d" :> 1 @@ "h" :> 2 @@ "m" :> 3 @@ "s" :> 4

UnitLimit == "d" :> 106751 @@ "h" :> 23 @@ "m" :> 59 @@ "s" :> 59

Encoded == dflow = "roundtrip" /\ dpc \in {"unmarshal", "done"}

(* C16: the text encoded from a non-negative interval is a quoted row of
   segments without separators, in the order d, h, m, s, each unit at most
   once, each number non-zero and reduced (hours below 24, minutes and
   seconds below 60); it is empty exactly when the interval holds no whole
   second. *)
C16_CanonicalSegments ==
    Encoded =>
        /\ Len(text) >= 2 /\ text[1] = Quote /\ text[Len(text)] = Quote
        /\ LET sg == Segments(Inner)
           IN  /\ \A i \in 1 .. Len(sg) :
                     /\ sg[i].unit \in DOMAIN UnitRank
                     /\ Head(sg[i].num) # "0"
                     /\ NumberOf(sg[i].num, 0) \in 1 .. UnitLimit[sg[i].unit]
               /\ \A i, j \in 1 .. Len(sg) :
                     i < j => UnitRank[sg[i].unit] < UnitRank[sg[j].unit]
        /\ Inner = << >> <=> (dur.day = 0 /\ dur.sod = 0)

C16_Witness ==
    /\ Encoded
    /\ dur = Duration(200, SecsPerHour + 47 * SecsPerMin, 0)
    /\ Inner = <<"2", "0", "0", "d", "1", "h", "4", "7", "m">>

Decoded == dflow = "decode" /\ dpc = "done"

(* the three kinds of text that C17 names *)
HasForeignChar(t) == \E i \in 1 .. Len(t) : t[i] \notin Decimals \cup DOMAIN UnitRank

EndsWithDigits(t) == t # << >> /\ t[Len(t)] \in Decimals

HasBareChar(t) ==
    \E i \in 1 .. Len(t) :
        /\ t[i] \notin Decimals
        /\ i = 1 \/ t[i - 1] \notin Decimals

(* C17: when a text has been decoded that holds a character that is neither
   a digit nor one of d, h, m, s, or that ends with digits, or that has a
   non-digit with no digits before it, the decoding returned an error and
   the destination still holds what it held before. *)
C17_BadTextRejected ==
    (Decoded /\ (HasForeignChar(Inner) \/ EndsWithDigits(Inner) \/ HasBareChar(Inner))) =>
        derr \notin {"nil", "none"} /\ dst = DstBefore

C17_Witness ==
    /\ Decoded
    /\ Inner = <<"2", "m", "1">>
    /\ derr = "invalid duration format"
    /\ dst = DstBefore

(* a row of <digits><unit> segments, and the exact sum it stands for *)
WellFormed(t) == \A i \in 1 .. Len(Segments(t)) : Segments(t)[i].unit \in DOMAIN UnitRank

ExactTerm(n, unit) ==
    CASE unit = "d" -> N3(n, 0, 0)
      [] unit = "h" -> N3(n \div 24, (n % 24) * 3600, 0)
      [] unit = "m" -> N3(n \div 1440, (n % 1440) * 60, 0)
      [] unit = "s" -> N3(n \div 86400, n % 86400, 0)

RECURSIVE SumOf(_)
SumOf(sg) ==
    IF sg = << >> THEN N3(0, 0, 0)
    ELSE Add3(ExactTerm(NumberOf(Head(sg).num, 0), Head(sg).unit), SumOf(Tail(sg)))

ExactSum == SumOf(Segments(Inner))

HoldsExactSum ==
    /\ derr = "nil"
    /\ ~dst.neg
    /\ N3(dst.day, dst.sod, dst.nsec) = ExactSum

(* C18 as stated: when any row of <digits><unit> segments has been
   decoded, in whatever order and with whatever repetition of units, the
   decoding succeeded and the destination holds the sum of the numbers
   times their units. *)
C18_AnyConcatenationSums == (Decoded /\ WellFormed(Inner)) => HoldsExactSum

(* every number of the row is one that ParseInt accepts *)
NumbersParse(t) == \A i \in 1 .. Len(Segments(t)) : ~OutOfRange(Segments(t)[i].num)

(* the same holds of every row whose numbers parse and whose sum fits a signed 64-bit count of
   nanoseconds *)
ConcatenationSumsInRange ==
    (Decoded /\ WellFormed(Inner) /\ NumbersParse(Inner) /\ Less3(ExactSum, TwoTo63)) =>
        HoldsExactSum

(* C19: when a non-negative interval with a part below one second has been
   encoded and the text decoded again, the destination holds the interval
   rounded down to a whole number of seconds, never the next second. *)
C19_SubSecondDropped ==
    (dflow = "roundtrip" /\ dpc = "done" /\ dur.nsec > 0) =>
        derr = "nil" /\ dst = Duration(dur.day, dur.sod, 0)

(***************************************************************************)
(* rateLimiter (ratelimit.go): a token bucket of golang.org/x/time/rate,   *)
(* built by rate.NewLimiter(rate.Every(time.Second/time.Duration(rps)),    *)
(* rps).  The bucket gains one token every Interval(rps) nanoseconds up to *)
(* rps tokens and starts full; Wait takes one token, and when the bucket   *)
(* has none it reserves the next one and sleeps until that token is due.   *)
(* The content is counted in nanoseconds of accrual: one token is          *)
(* Interval(rps) of them.                                                  *)
(***************************************************************************)
MaxRps == 3
MaxCalls == 4
MaxNow == 1500000000

RpsValues == 1 .. MaxRps

(* time.Second / time.Duration(rps): the integer division of Go, which
   rounds towards zero (rps # 0) *)
Interval(rps) == IF rps > 0 THEN Second \div rps ELSE -(Second \div (-rps))

(* rate.Every(interval) is rate.Inf for an interval that is not positive,
   and a limiter of rate Inf lets every call through at once *)
Unlimited(rps) == Interval(rps) <= 0

(* the full bucket: burst = rps tokens *)
Burst(rps) == rps * Interval(rps)

Min(a, b) == IF a <= b THEN a ELSE b

(* a Client built with a positive RateLimit *)
InitLimiter ==
    /\ InitNoRequest
    /\ InitCodecIdle
    /\ InitSharedIdle
    /\ lstate = "ready"
    /\ lrps \in RpsValues
    /\ lnow = 0
    /\ lcredit = Burst(lrps)
    /\ sleeping = {}
    /\ admitted = << >>

TickSteps(rps) ==
    IF Unlimited(rps) THEN {Second \div 2} ELSE {Interval(rps) \div 2, Interval(rps)}

(* time passes: half an interval, an interval, or up to a sleeper's wake-up *)
Tick ==
    /\ lstate = "ready"
    /\ \E dt \in TickSteps(lrps) \cup {w - lnow : w \in {x \in sleeping : x > lnow}} :
          /\ dt <= MaxNow - lnow
          /\ lnow' = lnow + dt
          /\ lcredit' = IF Unlimited(lrps) THEN lcredit ELSE Min(Burst(lrps), lcredit + dt)
    /\ UNCHANGED <<lstate, lrps, sleeping, admitted>>
    /\ UNCHANGED <<sendVars, streamVars, facadeVars, codecVars, sharedVars>>

(* a caller enters Wait: it takes a token and returns at once, or reserves
   the next token and goes to sleep until it is due *)
Enter ==
    /\ lstate = "ready"
    /\ Len(admitted) + Cardinality(sleeping) < MaxCalls
    /\ IF Unlimited(lrps)
       THEN /\ admitted' = Append(admitted, lnow)
            /\ UNCHANGED <<lcredit, sleeping>>
       ELSE /\ lcredit - Interval(lrps) >= lnow - MaxNow
            /\ lcredit' = lcredit - Interval(lrps)
            /\ IF lcredit' >= 0
               THEN admitted' = Append(admitted, lnow) /\ UNCHANGED sleeping
               ELSE sleeping' = sleeping \cup {lnow - lcredit'} /\ UNCHANGED admitted
    /\ UNCHANGED <<lstate, lrps, lnow>>
    /\ UNCHANGED <<sendVars, streamVars, facadeVars, codecVars, sharedVars>>

(* a timer test that misses the instant the token is due *)
TimerFired_Strict(w) == w < lnow

(* the sleep until the reserved token is due is over *)
TimerFired(w) == w <= lnow

(* a sleeper's timer has fired: its Wait returns nil *)
Leave ==
    /\ lstate = "ready"
    /\ \E w \in sleeping :
          /\ TimerFired(w)
          /\ sleeping' = sleeping \ {w}
          /\ admitted' = Append(admitted, lnow)
    /\ UNCHANGED <<lstate, lrps, lnow, lcredit>>
    /\ UNCHANGED <<sendVars, streamVars, facadeVars, codecVars, sharedVars>>

NextLimiter == Tick \/ Enter \/ Leave

SpecLimiter == InitLimiter /\ [][NextLimiter]_vars

(* time passes, and a goroutine whose timer has fired gets to run *)
SpecLimiterFair == SpecLimiter /\ WF_vars(Tick) /\ WF_vars(Leave)

(* NewClient with WithRateLimit(rps): rps of any sign reaches newRateLimiter *)
RateLimitValues == -1 .. MaxRps

InitConstruct ==
    /\ InitNoRequest
    /\ InitCodecIdle
    /\ InitSharedIdle
    /\ lstate = "new"
    /\ lrps \in RateLimitValues
    /\ lnow = 0
    /\ lcredit = 0
    /\ sleeping = {}
    /\ admitted = << >>

(* NewClient: limiter: newRateLimiter(opts.RateLimit).  The division by a
   zero rps is a run-time panic; NewClient has no error to return. *)
NewClient ==
    /\ lstate = "new"
    /\ IF lrps = 0
       THEN /\ lstate' = "panic"
            /\ UNCHANGED lcredit
       ELSE /\ lstate' = "ready"
            /\ lcredit' = IF Unlimited(lrps) THEN 0 ELSE Burst(lrps)
    /\ UNCHANGED <<lrps, lnow, sleeping, admitted>>
    /\ UNCHANGED <<sendVars, streamVars, facadeVars, codecVars, sharedVars>>

NextConstruct == NewClient \/ NextLimiter

SpecConstruct == InitConstruct /\ [][NextConstruct]_vars

(* n admissions fit a window of t nanoseconds at r per second with burst r:
   n <= r * t / Second + r, computed without leaving the integers *)
WithinRate(n, t, r) ==
    \/ n <= r
    \/ LET k == n - r
           q == Second \div r
           m == Second % r
       IN  /\ k <= t \div q
           /\ t - k * q >= (k * m + r - 1) \div r

(* C20: the admissions between any two admissions number at most R times
   the time between them (in seconds) plus R. *)
C20_AdmissionsWithinRate ==
    \A i, j \in 1 .. Len(admitted) :
        i <= j => WithinRate(j - i + 1, admitted[j] - admitted[i], lrps)

(* the callers that have entered Wait so far *)
Entered == Len(admitted) + Cardinality(sleeping)

(* C21: with a positive rate, every caller that has entered Wait is
   eventually admitted: once n callers have entered, n callers are
   eventually admitted; Wait has no path on which it returns an error or
   gives the caller up. *)
C21_EveryCallerAdmitted ==
    \A n \in 1 .. MaxCalls : (Entered >= n) ~> (Len(admitted) >= n)

C21_Witness ==
    /\ lrps = 2
    /\ sleeping = {}
    /\ Len(admitted) = 4
    /\ admitted[4] - admitted[1] = Second

(* C22: once a Client has been constructed with a rate limit of 0 or below,
   the construction has ended in a configuration error; it has not ended
   in a panic, nor in a client whose limiter admits every request. *)
C22_NonPositiveRateRejected ==
    (lrps <= 0 /\ lstate # "new") => lstate = "config error"

(* the server was reached at every attempt, and the caller did not cancel *)
ServerReached ==
    /\ ctx = "live"
    /\ \A i \in 1 .. Len(log) : log[i].kind = "response"

(* C23: every request DeleteModel hands to the HTTP client is a DELETE of
   /api/delete whose query parameter `name` is the model name, and against
   the server of TestDeleteModel, which answers 400 to an empty `name` and
   200 otherwise, DeleteModel of a non-empty name returns no error. *)
C23_DeleteSendsNameInQuery ==
    (fop = "DeleteModel" /\ req.name # "") =>
        /\ \A i \in 1 .. Len(sent) :
              /\ sent[i].method = "DELETE"
              /\ sent[i].path = "/api/delete"
              /\ sent[i].name = req.name
        /\ (server = "TestDeleteModel" /\ fpc = "returned" /\ ServerReached /\ Len(sent) > 0)
              => fret # "error"

(***************************************************************************)
(* json.Marshal of a ChatRequest (types.go): the fields in the order of    *)
(* the struct, a field tagged omitempty left out when it holds the empty   *)
(* value of its kind, KeepAlive written by Duration.MarshalJSON.           *)
(***************************************************************************)
ChatRequests ==
    [Model : {"", "llama2"},
     Messages : {<< >>, <<[role |-> "user", content |-> "Hello"]>>},
     Tools : {<< >>, <<"tool">>},
     Format : {"nil", "json"},
     Stream : BOOLEAN,
     Options : {<< >>, <<"temperature">>},
     KeepAlive : {Duration(0, 0, 0), Duration(0, 0, 500000000),
                  Duration(0, 5 * SecsPerMin, 0), Duration(1, SecsPerHour, 0)}]

Field(key, value) == <<[key |-> key, value |-> value]>>

(* a field whose tag has omitempty *)
OmitEmpty(key, value, empty) == IF empty THEN << >> ELSE Field(key, value)

(* Stream bool `json:"stream"` *)
StreamField(r) == Field("stream", r.Stream)

MarshalChatRequest(r) ==
    Field("model", r.Model)
        \o Field("messages", r.Messages)
        \o OmitEmpty("tools", r.Tools, r.Tools = << >>)
        \o OmitEmpty("format", r.Format, r.Format = "nil")
        \o StreamField(r)
        \o OmitEmpty("options", r.Options, r.Options = << >>)
        \o OmitEmpty("keep_alive", MarshalJSON(r.KeepAlive),
                     r.KeepAlive = Duration(0, 0, 0))

InitChatRequest ==
    /\ InitNoRequest
    /\ InitLimiterIdle
    /\ InitSharedIdle
    /\ dflow = "chat request"
    /\ dpc = "marshal"
    /\ dur = Duration(0, 0, 0)
    /\ text = << >>
    /\ dst = Duration(0, 0, 0)
    /\ derr = "none"
    /\ creq \in ChatRequests
    /\ cjson = << >>

(* json.Marshal(req) *)
MarshalRequest ==
    /\ dflow = "chat request"
    /\ dpc = "marshal"
    /\ cjson' = MarshalChatRequest(creq)
    /\ dpc' = "done"
    /\ UNCHANGED <<dflow, dur, text, dst, derr, creq>>
    /\ UNCHANGED <<sendVars, streamVars, facadeVars, limiterVars, sharedVars>>

SpecChatRequest == InitChatRequest /\ [][MarshalRequest]_vars

(* the keys of the object, in order *)
Keys == [i \in 1 .. Len(cjson) |-> cjson[i].key]

(* only Model, Messages and KeepAlive are set *)
OnlyModelMessagesKeepAlive ==
    /\ creq.Model # "" /\ creq.Messages # << >>
    /\ creq.Tools = << >> /\ creq.Format = "nil" /\ creq.Options = << >>
    /\ ~creq.Stream
    /\ creq.KeepAlive.day > 0 \/ creq.KeepAlive.sod > 0

(* C24: a ChatRequest in which only Model, Messages and KeepAlive are set
   is serialized as the keys model, messages, keep_alive, in that order and
   no other (no stream key), with keep_alive in the Duration text form:
   5 minutes as "5m". *)
C24_ChatRequestKeys ==
    (dflow = "chat request" /\ dpc = "done" /\ OnlyModelMessagesKeepAlive) =>
        /\ Keys = <<"model", "messages", "keep_alive">>
        /\ creq.KeepAlive = Duration(0, 5 * SecsPerMin, 0) =>
              cjson[Len(cjson)].value = <<Quote, "5", "m", Quote>>

(***************************************************************************)
(* The retry loop against a server that cannot be reached: every attempt   *)
(* ends in a transport error, so the loop runs through all its backoffs.   *)
(***************************************************************************)
MaxBackoffRetries == 66

InitBackoff ==
    /\ opts \in [MaxRetries : {MaxBackoffRetries},
                 RetryWaitTime : RetryWaitTimes,
                 RetryMaxWaitTime : {DefaultRetryMaxWaitTime},
                 RateLimit : RateLimits]
    /\ input = [encodable |-> TRUE, buildable |-> TRUE]
    /\ tokens = newRateLimiter(opts.RateLimit)
    /\ ctx = "live"
    /\ cancelAt = [pc |-> "none", attempt |-> 0]
    /\ pc = "wait"
    /\ attempt = 0
    /\ resp = 0
    /\ err = Nil
    /\ log = << >>
    /\ sleeps = << >>
    /\ ret = NoRet
    /\ InitStreamIdle
    /\ InitFacadeIdle
    /\ InitAuxIdle

NextBackoff ==
    \/ Wait
    \/ LoopHead
    \/ Sleep
    \/ Send
    \/ DoFails
    \/ AfterLoop

SpecBackoff == InitBackoff /\ [][NextBackoff]_vars

(* min(w * 2^n, max) in exact arithmetic, in whole seconds *)
RECURSIVE ExactBackoff(_, _, _)
ExactBackoff(w, n, max) ==
    IF w > max THEN max
    ELSE IF n = 0 THEN w
    ELSE ExactBackoff(2 * w, n - 1, max)

(* C25: the backoff slept before attempt k is RetryWaitTime * 2^(k-1)
   capped at RetryMaxWaitTime, in exact arithmetic, for every k >= 1: so it
   is not negative, not above RetryMaxWaitTime and does not decrease with
   k, also where the product passes the int64 range or the shift count
   reaches 64. *)
C25_BackoffExact ==
    \A k \in 1 .. Len(sleeps) :
        sleeps[k] = Duration(0, ExactBackoff(opts.RetryWaitTime, k - 1, opts.RetryMaxWaitTime), 0)

(* the number of decoded values the consumer has received *)
ValuesReceived == Cardinality({i \in 1 .. Len(received) : received[i].Error = "nil"})

(* C26: in every streaming operation the decode task is at most one item
   ahead of the consumer: at most one decoded value has not been received,
   that value is the one held in the pending channel send, and whenever
   the task is about to read the next JSON value from the body every
   value read before has been handed to the consumer. *)
C26_AtMostOneItemAhead ==
    sop \in StreamOps =>
        /\ spos - ValuesReceived \in {0, 1}
        /\ spos - ValuesReceived = 1 => spc = "send" /\ pending.Error = "nil"
        /\ spc = "decode" => pending = NoItem /\ spos = ValuesReceived

C26_Witness ==
    /\ sop = "PushModel"
    /\ consumer = "reading"
    /\ spos = 3
    /\ ValuesReceived = 2
    /\ spc = "send"

(* ---- the kind of error a decoding fails with ---- *)

(* the digits that stand right before position i of the text *)
RECURSIVE RunBefore(_, _)
RunBefore(t, i) ==
    IF i = 1 \/ t[i - 1] \notin Decimals THEN << >>
    ELSE Append(RunBefore(t, i - 1), t[i - 1])

Unparsable(ds) == ds = << >> \/ OutOfRange(ds)

(* position i holds a character at which the scan cannot go on *)
Stops(t, i) ==
    /\ t[i] \notin Decimals
    /\ t[i] \notin DOMAIN UnitRank \/ Unparsable(RunBefore(t, i))

(* the position of the character that stops the scan, 0 if there is none *)
StopAt(t) ==
    IF \E i \in 1 .. Len(t) : Stops(t, i)
    THEN CHOOSE i \in 1 .. Len(t) : Stops(t, i) /\ \A j \in 1 .. i - 1 : ~Stops(t, j)
    ELSE 0

(* the errors of strconv.ParseInt *)
InvalidNumber(e) == e \in {"invalid syntax", "value out of range"}

(* C27 as stated: when the character that stopped the scan of a decoded
   text is neither a digit nor one of d, h, m, s, the decoding returned
   the invalid-unit error, whether or not digits stand before it; and the
   decoding returned the invalid-number error only when the character
   that stopped the scan is one of d, h, m, s and the digits before it
   are none or do not parse. *)
C27_ForeignCharIsInvalidUnit ==
    Decoded =>
        LET i == StopAt(Inner)
        IN  /\ (i # 0 /\ Inner[i] \notin DOMAIN UnitRank) => derr = "invalid duration unit"
            /\ InvalidNumber(derr) =>
                    /\ i # 0
                    /\ Inner[i] \in DOMAIN UnitRank
                    /\ Unparsable(RunBefore(Inner, i))

(* C27: the number is tested before the unit.  The decoding returned the
   invalid-number error exactly when the scan reached a character that is
   not a digit, one of d, h, m, s or not, with no digits or digits that do
   not parse before it; it returned the invalid-unit error exactly when
   the scan reached a character that is neither a digit nor one of
   d, h, m, s with digits that parse before it. *)
C27_NumberTestedBeforeUnit ==
    Decoded =>
        LET i == StopAt(Inner)
        IN  /\ InvalidNumber(derr) <=> (i # 0 /\ Unparsable(RunBefore(Inner, i)))
            /\ derr = "invalid duration unit" <=>
                    /\ i # 0
                    /\ Inner[i] \notin DOMAIN UnitRank
                    /\ ~Unparsable(RunBefore(Inner, i))

C27_Witness ==
    /\ Decoded
    /\ Inner = <<"1", "s", "x">>
    /\ derr = "invalid syntax"
    /\ dst = DstBefore

(* ---- what sendRequest returns, and what it does to the bodies ---- *)

(* C28: for every MaxRetries, negative ones included, the call never reads
   the status of a response it did not receive, and when it has returned
   it has gone through the loop at least once: it made an HTTP attempt,
   or the body did not encode or the request could not be built. *)
C28_NoNilDereference ==
    /\ pc # "panic"
    /\ pc = "done" => (Len(log) >= 1 \/ ret.err = EncodeError)

(* C29: a call that has returned has returned exactly one of a response
   and an error; a returned response is one the call received, its status
   is 200 and its body has not been closed. *)
C29_ResponseXorError ==
    pc = "done" =>
        /\ (ret.resp # 0) # (ret.err # Nil)
        /\ ret.resp # 0 =>
                /\ ret.resp \in 1 .. Len(log)
                /\ log[ret.resp].kind = "response"
                /\ log[ret.resp].status = StatusOK
                /\ log[ret.resp].closes = 0

C29_Witness ==
    /\ pc = "done"
    /\ Len(log) = 3
    /\ log[1].kind = "transport"
    /\ log[2].status = 503
    /\ ret = [resp |-> 3, err |-> Nil]

(* C30: no response body is closed more than once: a body the retry loop
   closed for its 429 or 5xx status is not closed again after the loop,
   also when it came with the last attempt. *)
C30_BodyClosedAtMostOnce ==
    \A i \in 1 .. Len(log) : log[i].closes <= 1

(* ---- the order of the two deferred calls ---- *)

(* C31: in every streaming operation the response body is closed before
   the channel is: whenever the channel is closed, and so whenever a
   consumer has seen it closed, the body has been closed. *)
C31_BodyClosedBeforeChannel ==
    sop \in StreamOps =>
        /\ chClosed => bodyCloses >= 1
        /\ consumer = "finished" => bodyCloses >= 1

(***************************************************************************)
(* Generate and GenerateStream called at the same time with a pointer to   *)
(* one GenerateRequest.  Each call writes req.Stream and then, in every    *)
(* pass of sendRequest's loop, encodes *req anew; the limiter's Wait and   *)
(* the backoff sleep only delay a call and are left to the interleaving.   *)
(* The two goroutines are not synchronised: the write of one call and the  *)
(* reads of the other come in any order.                                   *)
(***************************************************************************)
SharedRequest == [hasStream |-> TRUE, Stream |-> shared, name |-> ""]

InitShared ==
    /\ opts \in {o \in Options : o.MaxRetries >= 0 /\ o.RetryWaitTime = 1}
    /\ input = [encodable |-> TRUE, buildable |-> TRUE]
    /\ tokens = 0
    /\ ctx = "live"
    /\ cancelAt = [pc |-> "none", attempt |-> 0]
    /\ pc = "idle"
    /\ attempt = 0
    /\ resp = 0
    /\ err = Nil
    /\ log = << >>
    /\ sleeps = << >>
    /\ ret = NoRet
    /\ InitStreamIdle
    /\ InitFacadeIdle
    /\ InitCodecIdle
    /\ InitLimiterIdle
    /\ shared \in BOOLEAN
    /\ cpc = [c \in Calls |-> "entry"]
    /\ cattempt = [c \in Calls |-> 0]
    /\ csent = [c \in Calls |-> << >>]

(* req.Stream = false (Generate), req.Stream = true (GenerateStream) *)
WriteStream(c) ==
    /\ cpc[c] = "entry"
    /\ shared' = SetStream(c, SharedRequest).Stream
    /\ cpc' = [cpc EXCEPT ![c] = "encode"]
    /\ UNCHANGED <<cattempt, csent>>
    /\ UNCHANGED <<sendVars, streamVars, facadeVars, codecVars, limiterVars>>

(* json.NewEncoder(&buf).Encode(body) reads *req; the request goes to Do *)
EncodeAndSend(c) ==
    /\ cpc[c] = "encode"
    /\ csent' = [csent EXCEPT ![c] = Append(@, Encode(SharedRequest).stream)]
    /\ cpc' = [cpc EXCEPT ![c] = "inflight"]
    /\ UNCHANGED <<shared, cattempt>>
    /\ UNCHANGED <<sendVars, streamVars, facadeVars, codecVars, limiterVars>>

(* a transport error or a retryable status: continue, then the loop test *)
AttemptFails(c) ==
    /\ cpc[c] = "inflight"
    /\ cattempt' = [cattempt EXCEPT ![c] = @ + 1]
    /\ cpc' = [cpc EXCEPT ![c] = IF LoopCond(cattempt[c] + 1) THEN "encode" ELSE "done"]
    /\ UNCHANGED <<shared, csent>>
    /\ UNCHANGED <<sendVars, streamVars, facadeVars, codecVars, limiterVars>>

(* a final status: break *)
AttemptEnds(c) ==
    /\ cpc[c] = "inflight"
    /\ cpc' = [cpc EXCEPT ![c] = "done"]
    /\ UNCHANGED <<shared, cattempt, csent>>
    /\ UNCHANGED <<sendVars, streamVars, facadeVars, codecVars, limiterVars>>

NextShared ==
    \E c \in Calls :
        \/ WriteStream(c)
        \/ EncodeAndSend(c)
        \/ AttemptFails(c)
        \/ AttemptEnds(c)

SpecShared == InitShared /\ [][NextShared]_vars

(* the flag each operation forces *)
ForcedFlag(c) == c = "GenerateStream"

(* C32: with Generate and GenerateStream running at the same time on one
   GenerateRequest, every body Generate sent, first attempt and retries
   alike, carries stream = false and every body GenerateStream sent
   carries stream = true. *)
C32_EachCallSendsOwnFlag ==
    \A c \in Calls : \A i \in 1 .. Len(csent[c]) : csent[c][i] = ForcedFlag(c)

(* ---- tokens and HTTP requests ---- *)

(* the call has left c.limiter.Wait() *)
PastLimiter == pc \notin {"idle", "wait", "blocked"}

(* a step takes a token only on the way from Wait into the loop, before
   any attempt, and a call past the limiter stays past it with the bucket
   as it is *)
TokenStep ==
    /\ tokens' < tokens =>
            /\ tokens' = tokens - 1
            /\ ~PastLimiter
            /\ PastLimiter'
            /\ attempt = 0
            /\ log = << >>
    /\ PastLimiter => (PastLimiter' /\ tokens' = tokens)

(* C33: a call takes one token from the limiter, before its first attempt,
   and none after it: the bucket loses a token only in the step that takes
   the call from Wait into the loop, with no attempt made yet, and the
   call never goes back to the limiter; so the one token covers between 0
   and MaxRetries+1 HTTP requests. *)
C33_OneTokenPerCall ==
    /\ [](HTTPAttempts >= 0 /\ HTTPAttempts <= opts.MaxRetries + 1)
    /\ [][TokenStep]_vars

C33_Witness ==
    /\ pc = "done"
    /\ opts.MaxRetries = 2
    /\ opts.RateLimit = 1
    /\ tokens = 0
    /\ HTTPAttempts = 3

(* ---- the range of a decoded Duration ---- *)

(* C34: when a text has been decoded without error, the destination holds
   a non-negative interval that is the exact sum of the text's segments;
   and a row of segments whose sum is beyond the largest int64 count of
   nanoseconds has been rejected with an error. *)
C34_AcceptedSumIsExact ==
    /\ (Decoded /\ derr = "nil") =>
            /\ ~dst.neg
            /\ N3(dst.day, dst.sod, dst.nsec) = ExactSum
    /\ (Decoded /\ WellFormed(Inner) /\ NumbersParse(Inner) /\ ~Less3(ExactSum, TwoTo63)) =>
            derr # "nil"

====
